---- MODULE Spec2Model ----
(***************************************************************************)
(* A model of the manifest-driven reproduction pipeline of src/repro.py:   *)
(* reproduce_command and the helpers it calls (__load_metadata,            *)
(* __get_nested, __download_code, __configure_docker_container,            *)
(* __run_experiment), together with the Python control flow around them    *)
(* (sys.exit as a SystemExit exception, the two `with` blocks, the         *)
(* interpreter's exit status).                                             *)
(*                                                                         *)
(* Strings the code inspects character by character (the repository        *)
(* locator, matched by a regular expression) are sequences of one-char     *)
(* strings.  A YAML value is a tree: a function from key paths to nodes,   *)
(* whose root node <<>> says what kind of value it is; a node's val is the *)
(* list of its strings (one for a scalar string, the items for a list).    *)
(***************************************************************************)
EXTENDS Integers, Sequences, FiniteSets, TLC

VARIABLES
    input,              \* the manifest file: [wellformed, data]
    remote,             \* the world: what each URL offers to git
    dockerBuildStatus,  \* exit status `docker build` returned (-1: not run)
    dockerRunStatus,    \* exit status the run invocation returned (-1: not run)
    network_access,     \* the value assigned at repro.py:204
    pc,                 \* position in reproduce_command
    data,               \* the loaded manifest (reproduce_command's `data`)
    tmpdir,             \* "none" | "created" | "removed"
    dest,               \* entries under the working directory
    candidates,         \* __download_code's candidate list
    idx,                \* position of the for loop over candidates
    attempts,           \* log of the clone attempts made
    repo,               \* the Repo handle returned by __download_code
    dockerfile,         \* text written to dest/Dockerfile
    calls,              \* argv of every subprocess.run made, in order
    stagesStarted,      \* log of the stages started, in order
    raised,             \* the exception in flight: [stage, exc]
    exitCode,           \* the process exit status (-1 while running)
    lookup,             \* one call of __get_nested: [d0, d, keys, result, pc]
    parse,              \* one relaxed-dialect parse: [original, text, result, pc]
    builder,            \* two calls of __configure_docker_container:
                        \* [metadata, written, raised, pc], a pair each
    reading,            \* what the inspector and the file system report to the audit
    audit               \* a run of repro-check.py: [pc, i, checked, hints, report,
                        \* raised, returned, exit]

\* The state of everything but reproduce_command's run.
others == <<lookup, parse, builder, reading, audit>>

vars == <<input, remote, dockerBuildStatus, dockerRunStatus, network_access,
          pc, data, tmpdir, dest, candidates, idx, attempts, repo,
          dockerfile, calls, stagesStarted, raised, exitCode, others>>

world == <<input, remote, network_access>>
docker == <<dockerBuildStatus, dockerRunStatus>>

(***************************************************************************)
(* Bounds of the model.                                                    *)
(***************************************************************************)
MaxCmdLen == 1
MaxPathLen == 3

(***************************************************************************)
(* Generic helpers.                                                        *)
(***************************************************************************)
Range(s) == {s[i] : i \in 1..Len(s)}

IsPrefix(s, t) == Len(s) <= Len(t) /\ SubSeq(t, 1, Len(s)) = s

RECURSIVE Join(_, _)
Join(parts, sep) ==
    IF Len(parts) = 0 THEN <<>>
    ELSE IF Len(parts) = 1 THEN parts[1]
    ELSE parts[1] \o sep \o Join(Tail(parts), sep)

(***************************************************************************)
(* YAML values as trees.                                                   *)
(***************************************************************************)
MapNode == [kind |-> "map", val |-> <<>>]
StrNode(s) == [kind |-> "str", val |-> <<s>>]
ListNode(l) == [kind |-> "list", val |-> l]
NullNode == [kind |-> "null", val |-> <<>>]

Tree(pairs) == [p \in {x[1] : x \in pairs} |-> (CHOOSE x \in pairs : x[1] = p)[2]]
Leaf(node) == Tree({<<<<>>, node>>})
NoneTree == Leaf(NullNode)

IsMapping(t) == t[<<>>].kind = "map"
HasKey(t, key) == <<key>> \in DOMAIN t
Item(t, key) ==
    [q \in {Tail(p) : p \in {p \in DOMAIN t : Len(p) >= 1 /\ p[1] = key}}
        |-> t[<<key>> \o q]]

(***************************************************************************)
(* __get_nested (repro.py:72-97).  The loop runs over i = 0..len(keys)-1   *)
(* with `out` the value reached so far; GetNestedLoop(out, keys, i) is the *)
(* loop from iteration i on.  The result carries the exception class and   *)
(* the sub-path its message names.                                         *)
(***************************************************************************)
\* Mutant: the not-a-mapping message slices keys[:i+1] as the missing-key
\* message does.
RECURSIVE GetNestedLoop_OffByOne(_, _, _)
GetNestedLoop_OffByOne(out, keys, i) ==
    IF i >= Len(keys)
    THEN [status |-> "ok", path |-> keys, value |-> out]
    ELSE IF ~IsMapping(out)
    THEN [status |-> "LookupError", path |-> SubSeq(keys, 1, i + 1), value |-> NoneTree]
    ELSE IF ~HasKey(out, keys[i + 1])
    THEN [status |-> "KeyError", path |-> SubSeq(keys, 1, i + 1), value |-> NoneTree]
    ELSE GetNestedLoop_OffByOne(Item(out, keys[i + 1]), keys, i + 1)

RECURSIVE GetNestedLoop(_, _, _)
GetNestedLoop(out, keys, i) ==
    IF i >= Len(keys)
    THEN [status |-> "ok", path |-> keys, value |-> out]
    ELSE IF ~IsMapping(out)
    THEN [status |-> "LookupError", path |-> SubSeq(keys, 1, i), value |-> NoneTree]
    ELSE IF ~HasKey(out, keys[i + 1])
    THEN [status |-> "KeyError", path |-> SubSeq(keys, 1, i + 1), value |-> NoneTree]
    ELSE GetNestedLoop(Item(out, keys[i + 1]), keys, i + 1)

GetNested(d, keys) == GetNestedLoop(d, keys, 0)

\* Mutant: the handlers catch KeyError alone.
IsLookupError_KeyErrorOnly(status) == status = "KeyError"
\* KeyError is a subclass of LookupError: `except LookupError` catches both.
IsLookupError(status) == status \in {"LookupError", "KeyError"}
IsKeyError(status) == status = "KeyError"

RepositoryPath == <<"implementation", "source", "repository">>
CommitPath == <<"implementation", "source", "commit">>
CmdPath == <<"implementation", "executable", "cmd">>

(***************************************************************************)
(* Repository locators and the candidate list (repro.py:128-134).          *)
(***************************************************************************)
HostChars == {"g", "h", "p", "s", "t", ".", "-"}     \* [A-Za-z0-9.-]
HttpsPrefix == <<"h", "t", "t", "p", "s", ":", "/", "/">>

LocScp == <<"g", "@", "h", ":", "p">>                           \* g@h:p
LocHttps == HttpsPrefix \o <<"h", "/", "p">>                    \* https://h/p
LocNoUser == <<"@", "h", ":", "p">>                             \* @h:p
LocNoHost == <<"g", "@", ":", "p">>                             \* g@:p
LocSshUrl == <<"s", ":", "/", "/", "g", "@", "h", ":", "p">>    \* s://g@h:p
Locators == {LocScp, LocHttps, LocNoUser, LocNoHost, LocSshUrl}

Min(S) == CHOOSE x \in S : \A y \in S : x <= y
Max(S) == CHOOSE x \in S : \A y \in S : x >= y

\* re.match(r"([^@]*)@([A-Za-z0-9.-]+):(.*)", s): group 1 cannot hold an "@",
\* so the "@" matched is the first one; group 2 is the whole run of host
\* characters after it, which must be non-empty and followed by ":"; group 3
\* runs to the end of the line ("." matches no newline).
ScpMatch(s) ==
    LET ats == {i \in 1..Len(s) : s[i] = "@"}
        NoMatch == [matched |-> FALSE, host |-> <<>>, path |-> <<>>]
    IN  IF ats = {} THEN NoMatch
        ELSE LET a == Min(ats)
                 hostEnd == Max({j \in a..Len(s) :
                                   \A k \in (a + 1)..j : s[k] \in HostChars})
                 newlines == {i \in (hostEnd + 2)..Len(s) : s[i] = "\n"}
                 pathEnd == IF newlines = {} THEN Len(s) ELSE Min(newlines) - 1
             IN  IF hostEnd > a /\ hostEnd < Len(s) /\ s[hostEnd + 1] = ":"
                 THEN [matched |-> TRUE,
                       host |-> SubSeq(s, a + 1, hostEnd),
                       path |-> SubSeq(s, hostEnd + 2, pathEnd)]
                 ELSE NoMatch

Candidates(repository) ==
    LET match == ScpMatch(repository)
    IN  IF match.matched
        THEN <<repository, HttpsPrefix \o match.host \o <<"/">> \o match.path>>
        ELSE <<repository>>

Urls == Locators \cup UNION {Range(Candidates(l)) : l \in Locators}

(***************************************************************************)
(* The manifests the model runs on.  yaml.safe_load either fails           *)
(* (wellformed = FALSE) or returns any YAML value, mapping or not.         *)
(***************************************************************************)
Commit == <<"c">>
Args == {<<"p">>, <<"\"">>}
RECURSIVE SeqsUpTo(_, _)
SeqsUpTo(S, n) ==
    IF n = 0 THEN {<<>>}
    ELSE LET shorter == SeqsUpTo(S, n - 1)
         IN  shorter \cup {Append(s, x) : s \in {t \in shorter : Len(t) = n - 1}, x \in S}
Cmds == SeqsUpTo(Args, MaxCmdLen)

SourceVariants == {"no_repository", "no_commit", "source_scalar", "no_source",
                   "repository_not_str", "commit_not_str"}
ExecVariants == {"no_cmd", "executable_scalar", "no_executable", "cmd_not_list"}

SourcePairs(sv, loc) ==
    LET src == <<"implementation", "source">>
        m == {<<src, MapNode>>}
        r == {<<RepositoryPath, StrNode(loc)>>}
        c == {<<CommitPath, StrNode(Commit)>>}
    IN  CASE sv = "ok" -> m \cup r \cup c
          [] sv = "no_repository" -> m \cup c
          [] sv = "no_commit" -> m \cup r
          [] sv = "source_scalar" -> {<<src, StrNode(loc)>>}
          [] sv = "no_source" -> {}
          [] sv = "repository_not_str" -> m \cup c \cup {<<RepositoryPath, ListNode(<<loc>>)>>}
          [] sv = "commit_not_str" -> m \cup r \cup {<<CommitPath, ListNode(<<Commit>>)>>}

ExecPairs(ev, cmd) ==
    LET exe == <<"implementation", "executable">>
        m == {<<exe, MapNode>>}
    IN  CASE ev = "ok" -> m \cup {<<CmdPath, ListNode(cmd)>>}
          [] ev = "no_cmd" -> m
          [] ev = "executable_scalar" -> {<<exe, StrNode(<<"p">>)>>}
          [] ev = "no_executable" -> {}
          [] ev = "cmd_not_list" -> m \cup {<<CmdPath, StrNode(<<"p">>)>>}

Manifest(sv, loc, ev, cmd) ==
    Tree({<<<<>>, MapNode>>, <<<<"implementation">>, MapNode>>}
         \cup SourcePairs(sv, loc) \cup ExecPairs(ev, cmd))

Manifests ==
    {NoneTree, Leaf(StrNode(<<"p">>)),
     Tree({<<<<>>, MapNode>>, <<<<"implementation">>, StrNode(<<"p">>)>>})}
    \cup {Manifest(sv, LocScp, "ok", <<<<"p">>>>) : sv \in SourceVariants}
    \cup {Manifest("ok", loc, ev, <<>>) : loc \in Locators, ev \in ExecVariants}
    \cup {Manifest("ok", loc, "ok", cmd) : loc \in Locators, cmd \in Cmds}

Inputs == {[wellformed |-> FALSE, data |-> NoneTree]}
          \cup {[wellformed |-> TRUE, data |-> m] : m \in Manifests}

RemoteKinds == {"unreachable", "no_commit", "ok"}

\* The candidate URLs a run on manifest d can contact.
UrlsOf(d) ==
    LET r == GetNested(d, RepositoryPath)
    IN  IF r.status = "ok" /\ r.value[<<>>].kind = "str"
        THEN Range(Candidates(r.value[<<>>].val[1]))
        ELSE {}

(***************************************************************************)
(* Exceptions, and how the process ends.                                   *)
(***************************************************************************)
NoExc == [type |-> "none", code |-> 0, cmd |-> <<>>]
SystemExit(code) == [type |-> "SystemExit", code |-> code, cmd |-> <<>>]
AssertionError == [type |-> "AssertionError", code |-> 0, cmd |-> <<>>]
LookupErrorExc == [type |-> "LookupError", code |-> 0, cmd |-> <<>>]
GitError == [type |-> "GitError", code |-> 0, cmd |-> <<>>]
NameError == [type |-> "NameError", code |-> 0, cmd |-> <<>>]
\* subprocess.run(..., check=True) on a nonzero status
CalledProcessError(returncode, argv) ==
    [type |-> "CalledProcessError", code |-> returncode, cmd |-> argv]

NotRaised == [stage |-> "none", exc |-> NoExc]
Raise(stage, exc) == [stage |-> stage, exc |-> exc]

ExitManifestSyntax == 1
ExitSourceMetadata == 2
ExitSourceUnavailable == 3
ExitMissingExecutable == 4
\* The interpreter's exit status for an exception nothing catches.
UncaughtExitStatus == 1

\* exit(main(...)) (repro.py:235-239): main returns None, which exits 0; a
\* SystemExit exits with its code; any other exception ends in a traceback.
ProcessStatus(exc) ==
    CASE exc.type = "none" -> 0
      [] exc.type = "SystemExit" -> exc.code
      [] OTHER -> UncaughtExitStatus

\* The exit statuses the model lets docker return.
BuildStatuses == {0, 1}
RunStatuses == {0, 125}

StageOrder == <<"load", "fetch", "build", "execute">>

(***************************************************************************)
(* The initial states: a manifest file and a world, nothing run yet.       *)
(***************************************************************************)
InitWorld ==
    /\ input \in Inputs
    /\ remote \in [Urls -> RemoteKinds]
    /\ \A u \in Urls \ UrlsOf(input.data) : remote[u] = "unreachable"

InitRun ==
    /\ pc = "start"
    /\ dockerBuildStatus = -1
    /\ dockerRunStatus = -1
    /\ data = NoneTree
    /\ tmpdir = "none"
    /\ dest = {}
    /\ candidates = <<>>
    /\ idx = 1
    /\ attempts = <<>>
    /\ repo = <<>>
    /\ dockerfile = <<>>
    /\ calls = <<>>
    /\ stagesStarted = <<>>
    /\ raised = NotRaised
    /\ exitCode = -1

\* No call of __get_nested on its own is under way.
NoResult == [status |-> "none", path |-> <<>>, value |-> NoneTree]
LookupIdle ==
    lookup = [d0 |-> NoneTree, d |-> NoneTree, keys |-> <<>>,
              result |-> NoResult, pc |-> "idle"]

ParseIdle ==
    parse = [original |-> <<>>, text |-> <<>>,
             result |-> [ok |-> FALSE, val |-> [t |-> "null", s |-> <<>>, m |-> <<>>]],
             pc |-> "idle"]
BuilderIdle ==
    builder = [metadata |-> <<NoneTree, NoneTree>>, written |-> <<<<>>, <<>>>>,
               raised |-> <<NoExc, NoExc>>, pc |-> <<"idle", "idle">>]
AuditIdle ==
    /\ reading = [GIT_IS_REPO |-> <<>>, GIT_REMOTE_ORIGIN |-> <<>>,
                  GIT_UNCHECKED_FILES |-> <<>>, GIT_UNCOMMITTED_CHANGES |-> <<>>,
                  GIT_UNPUSHED_CHANGES |-> <<>>, DEVCONTAINER_CONF_PATHS |-> <<>>,
                  readable |-> FALSE, content |-> <<>>]
    /\ audit = [pc |-> "idle", i |-> 0, checked |-> <<>>, hints |-> <<>>,
                report |-> [allgood |-> FALSE, count |-> -1, rows |-> <<>>],
                raised |-> NoExc, returned |-> -1, exit |-> -1]

OthersIdle == LookupIdle /\ ParseIdle /\ BuilderIdle /\ AuditIdle

\* repro.py:204 sets network_access to True.
Init == InitWorld /\ InitRun /\ network_access = TRUE /\ OthersIdle

(***************************************************************************)
(* reproduce_command, one action per step.                                 *)
(***************************************************************************)

\* reproduce_command line 215, __load_metadata (repro.py:100-109).  The
\* sys.exit(1) is raised outside the `with` blocks.
LoadMetadata ==
    /\ pc = "start"
    /\ stagesStarted' = Append(stagesStarted, "load")
    /\ IF input.wellformed
       THEN /\ data' = input.data
            /\ pc' = "mktemp"
            /\ raised' = raised
       ELSE /\ data' = data
            /\ pc' = "exit"
            /\ raised' = Raise("load", SystemExit(ExitManifestSyntax))
    /\ UNCHANGED <<others, world, docker, tmpdir, dest, candidates, idx, attempts, repo,
                   dockerfile, calls, exitCode>>

\* `with tempfile.TemporaryDirectory() as tmpdir` (repro.py:216): entry.
CreateTmpdir ==
    /\ pc = "mktemp"
    /\ tmpdir' = "created"
    /\ dest' = {}
    /\ pc' = "download"
    /\ UNCHANGED <<others, world, docker, data, candidates, idx, attempts, repo, dockerfile,
                   calls, stagesStarted, raised, exitCode>>

\* __download_code, lines 114-134: look the source up, build the candidates.
LocateSource ==
    /\ pc = "download"
    /\ stagesStarted' = Append(stagesStarted, "fetch")
    /\ LET repository == GetNested(data, RepositoryPath)
           commit == GetNested(data, CommitPath)
       IN  IF IsLookupError(repository.status) \/ IsLookupError(commit.status)
           THEN /\ raised' = Raise("fetch", SystemExit(ExitSourceMetadata))
                /\ pc' = "unwind"
                /\ candidates' = candidates
           ELSE IF repository.value[<<>>].kind # "str" \/ commit.value[<<>>].kind # "str"
           THEN /\ raised' = Raise("fetch", AssertionError)
                /\ pc' = "unwind"
                /\ candidates' = candidates
           ELSE /\ raised' = raised
                /\ pc' = "clone"
                /\ candidates' = Candidates(repository.value[<<>>].val[1])
    /\ idx' = 1
    /\ UNCHANGED <<others, world, docker, data, tmpdir, dest, attempts, repo, dockerfile,
                   calls, exitCode>>

\* git clone refuses a destination that exists and is not empty.
CloneSucceeds(url, entries) == remote[url] # "unreachable" /\ entries = {}
CheckoutSucceeds(url) == remote[url] = "ok"
\* Mutant: the `break` of line 142 is missing.
BreaksLoop_Never(cloned, checkedOut) == FALSE
\* The `break` of line 142 is reached when clone and checkout both succeeded.
BreaksLoop(cloned, checkedOut) == cloned /\ checkedOut
\* What the `except exc.GitError` handler (lines 143-144) leaves under dest:
\* it only logs.
AfterGitError(entries) == entries

\* Mutant: the loop gives up after the first candidate.
LoopExhausted_AfterFirst(i, cands) == i > 1
\* The for loop of line 136 has run out of candidates.
LoopExhausted(i, cands) == i > Len(cands)
\* Mutant: the handler names an exception class that clone and checkout do
\* not raise.
CatchesGitError_WrongClass == FALSE
\* `except exc.GitError` (line 143) catches what clone and checkout raise.
CatchesGitError == TRUE

\* One iteration of the for loop of lines 136-144.
TryCandidate ==
    /\ pc = "clone"
    /\ ~LoopExhausted(idx, candidates)
    /\ LET url == candidates[idx]
           cloned == CloneSucceeds(url, dest)
           checkedOut == cloned /\ CheckoutSucceeds(url)
           written == IF cloned THEN dest \cup {".git", "worktree"} ELSE dest
       IN  /\ attempts' = Append(attempts, [url |-> url, destEmpty |-> dest = {},
                                            cloned |-> cloned, checkedOut |-> checkedOut])
           /\ IF BreaksLoop(cloned, checkedOut)
              THEN /\ repo' = url
                   /\ pc' = "configure"
                   /\ idx' = idx
                   /\ dest' = written
                   /\ raised' = raised
              ELSE IF CatchesGitError
              THEN /\ repo' = repo
                   /\ pc' = pc
                   /\ idx' = idx + 1
                   /\ dest' = AfterGitError(written)
                   /\ raised' = raised
              ELSE /\ repo' = repo
                   /\ pc' = "unwind"
                   /\ idx' = idx
                   /\ dest' = written
                   /\ raised' = Raise("fetch", GitError)
    /\ UNCHANGED <<others, world, docker, data, tmpdir, candidates, dockerfile, calls,
                   stagesStarted, exitCode>>

\* The for loop's else branch, lines 145-148: no candidate was left.
FetchExhausted ==
    /\ pc = "clone"
    /\ LoopExhausted(idx, candidates)
    /\ raised' = Raise("fetch", SystemExit(ExitSourceUnavailable))
    /\ pc' = "unwind"
    /\ UNCHANGED <<others, world, docker, data, tmpdir, dest, candidates, idx, attempts, repo,
                   dockerfile, calls, stagesStarted, exitCode>>

(***************************************************************************)
(* The descriptor text (repro.py:23-32, 160-179), as a sequence of text    *)
(* pieces; json.dumps is computed character by character.                  *)
(***************************************************************************)
\* Mutant: no character is escaped.
JsonEscape_Raw(c) == <<c>>
\* The escapes json.dumps applies to the characters drawn.
JsonEscape(c) ==
    CASE c = "\"" -> <<"\\", "\"">>
      [] c = "\\" -> <<"\\", "\\">>
      [] c = "\n" -> <<"\\", "n">>
      [] OTHER -> <<c>>

RECURSIVE JsonChars(_)
JsonChars(s) == IF s = <<>> THEN <<>> ELSE JsonEscape(Head(s)) \o JsonChars(Tail(s))

JsonString(s) == <<"\"">> \o JsonChars(s) \o <<"\"">>

\* json.dumps of a looked-up value: a list of strings, a string, or null.
JsonDumps(value) ==
    LET node == value[<<>>]
    IN  CASE node.kind = "list" ->
               <<"[">> \o Join([i \in 1..Len(node.val) |-> JsonString(node.val[i])],
                               <<",", " ">>) \o <<"]">>
          [] node.kind = "str" -> JsonString(node.val[1])
          [] node.kind = "null" -> <<"n", "u", "l", "l">>

Basefile == "FROM --platform=linux/amd64 mcr.microsoft.com/devcontainers/python:2-3.14-trixie ..."
PostCreateCommand == "pip3 install --user -r requirements.txt"

DockerfileText(cmd) ==
    <<"\n", Basefile, "\n\nWORKDIR /app\n\nCOPY . .\nRUN ", PostCreateCommand, "\n\nCMD ">>
    \o JsonDumps(cmd) \o <<"\n">>

\* Mutant: the handler is `except KeyError`, as in __run_experiment.
ConfigureCatches_KeyErrorOnly(status) == IsKeyError(status)
\* `except LookupError` of __configure_docker_container (line 182).
ConfigureCatches(status) == IsLookupError(status)

\* Mutant: the handler of lines 182-186 logs the error and forgets the
\* sys.exit(4), so the function returns.
ConfigureDocker_LogsOnly ==
    /\ pc = "configure"
    /\ stagesStarted' = Append(stagesStarted, "build")
    /\ LET cmd == GetNested(data, CmdPath)
       IN  IF cmd.status = "ok"
           THEN /\ dockerfile' = DockerfileText(cmd.value)
                /\ dest' = dest \cup {"Dockerfile"}
           ELSE /\ dockerfile' = dockerfile
                /\ dest' = dest
    /\ pc' = "run_lookup"
    /\ UNCHANGED <<others, world, docker, data, tmpdir, candidates, idx, attempts, repo, calls,
                   raised, exitCode>>

\* __configure_docker_container (repro.py:152-187).
ConfigureDocker ==
    /\ pc = "configure"
    /\ stagesStarted' = Append(stagesStarted, "build")
    /\ LET cmd == GetNested(data, CmdPath)
       IN  IF cmd.status = "ok"
           THEN /\ dockerfile' = DockerfileText(cmd.value)
                /\ dest' = dest \cup {"Dockerfile"}
                /\ pc' = "run_lookup"
                /\ raised' = raised
           ELSE /\ dockerfile' = dockerfile
                /\ dest' = dest
                /\ pc' = "unwind"
                /\ raised' = IF ConfigureCatches(cmd.status)
                             THEN Raise("build", SystemExit(ExitMissingExecutable))
                             ELSE Raise("build", LookupErrorExc)
    /\ UNCHANGED <<others, world, docker, data, tmpdir, candidates, idx, attempts, repo, calls,
                   exitCode>>

\* __run_experiment, lines 192-201: only KeyError is caught here.
RunLookup ==
    /\ pc = "run_lookup"
    /\ stagesStarted' = Append(stagesStarted, "execute")
    /\ LET cmd == GetNested(data, CmdPath)
       IN  IF cmd.status = "ok" /\ cmd.value[<<>>].kind = "list"
           THEN /\ pc' = "docker_build"
                /\ raised' = raised
           ELSE /\ pc' = "unwind"
                /\ raised' = IF cmd.status = "ok" THEN Raise("execute", AssertionError)
                             ELSE IF IsKeyError(cmd.status)
                             THEN Raise("execute", SystemExit(ExitMissingExecutable))
                             ELSE Raise("execute", LookupErrorExc)
    /\ UNCHANGED <<others, world, docker, data, tmpdir, dest, candidates, idx, attempts, repo,
                   dockerfile, calls, exitCode>>

Directory == "<tmpdir>"
BuildArgv == <<"docker", "build", "-t", "repro-experiment", Directory>>

\* Mutant: subprocess.run without check=True.
CheckedRun_Unchecked(status, argv) == NoExc
\* What subprocess.run(argv, check=True) raises for an exit status.
CheckedRun(status, argv) ==
    IF status # 0 THEN CalledProcessError(status, argv) ELSE NoExc

\* __run_experiment, lines 204-205: the image build.
DockerBuild ==
    /\ pc = "docker_build"
    /\ calls' = Append(calls, BuildArgv)
    /\ \E status \in BuildStatuses :
           /\ dockerBuildStatus' = status
           /\ LET exc == CheckedRun(status, BuildArgv)
              IN  IF exc = NoExc
                  THEN pc' = "docker_run" /\ raised' = raised
                  ELSE pc' = "unwind" /\ raised' = Raise("execute", exc)
    /\ UNCHANGED <<others, world, dockerRunStatus, data, tmpdir, dest, candidates, idx,
                   attempts, repo, dockerfile, stagesStarted, exitCode>>

\* Lines 207-210.  docker_cmd is a name nothing defines: the branch of line
\* 209 raises NameError before the invocation of line 210.
DockerArgs == <<"--rm">>
RunArgv == <<"docker">> \o DockerArgs \o <<"repro-experiment">>

DockerRun ==
    /\ pc = "docker_run"
    /\ IF ~network_access
       THEN /\ calls' = calls
            /\ dockerRunStatus' = dockerRunStatus
            /\ pc' = "unwind"
            /\ raised' = Raise("execute", NameError)
       ELSE /\ calls' = Append(calls, RunArgv)
            /\ \E status \in RunStatuses :
                   /\ dockerRunStatus' = status
                   /\ LET exc == CheckedRun(status, RunArgv)
                      IN  IF exc = NoExc
                          THEN pc' = "leave" /\ raised' = raised
                          ELSE pc' = "unwind" /\ raised' = Raise("execute", exc)
    /\ UNCHANGED <<others, world, dockerBuildStatus, data, tmpdir, dest, candidates, idx,
                   attempts, repo, dockerfile, stagesStarted, exitCode>>

\* Mutant: the directory is removed by a call at the end of the block
\* instead of a context manager, so an exception skips the removal.
TemporaryDirectoryExit_OnSuccessOnly(exc) ==
    IF exc = NoExc THEN "removed" ELSE "created"

\* TemporaryDirectory.__exit__ removes the directory whatever leaves the block.
TemporaryDirectoryExit(exc) == "removed"

\* Leaving the `with` blocks of lines 216-221, normally or by an exception.
ExitContexts ==
    /\ pc \in {"unwind", "leave"}
    /\ tmpdir' = TemporaryDirectoryExit(raised.exc)
    /\ dest' = IF tmpdir' = "removed" THEN {} ELSE dest
    /\ pc' = "exit"
    /\ UNCHANGED <<others, world, docker, data, candidates, idx, attempts, repo, dockerfile,
                   calls, stagesStarted, raised, exitCode>>

\* The process ends (repro.py:224, 227-239).
ProcessExit ==
    /\ pc = "exit"
    /\ exitCode' = ProcessStatus(raised.exc)
    /\ pc' = "exited"
    /\ UNCHANGED <<others, world, docker, data, tmpdir, dest, candidates, idx, attempts, repo,
                   dockerfile, calls, stagesStarted, raised>>

Next ==
    \/ LoadMetadata
    \/ CreateTmpdir
    \/ LocateSource
    \/ TryCandidate
    \/ FetchExhausted
    \/ ConfigureDocker
    \/ RunLookup
    \/ DockerBuild
    \/ DockerRun
    \/ ExitContexts
    \/ ProcessExit

Spec == Init /\ [][Next]_vars

\* Every step is a blocking call of one sequential process: it always goes on.
FairSpec == Spec /\ WF_vars(Next)

\* The Execution Runner with the setting of line 204 either way.
InitNet == InitWorld /\ InitRun /\ network_access \in BOOLEAN /\ OthersIdle
SpecNet == InitNet /\ [][Next]_vars

(***************************************************************************)
(* reproduce_command not running: the state the other specifications keep  *)
(* the pipeline in.                                                        *)
(***************************************************************************)
PipelineIdle ==
    /\ input = [wellformed |-> FALSE, data |-> NoneTree]
    /\ remote = [u \in Urls |-> "unreachable"]
    /\ network_access = TRUE
    /\ InitRun

pipeline == <<input, remote, dockerBuildStatus, dockerRunStatus, network_access,
              pc, data, tmpdir, dest, candidates, idx, attempts, repo,
              dockerfile, calls, stagesStarted, raised, exitCode>>

(***************************************************************************)
(* __get_nested on its own (repro.py:72-97): a mapping and a key path are  *)
(* drawn, and the function is called once.                                 *)
(***************************************************************************)
LookupKeys == {"implementation", "source", "executable", "repository", "cmd"}
LookupPaths == SeqsUpTo(LookupKeys, MaxPathLen)
LookupTrees ==
    {NoneTree, Leaf(StrNode(<<"p">>)),
     Tree({<<<<>>, MapNode>>, <<<<"implementation">>, StrNode(<<"p">>)>>})}
    \cup {Manifest(sv, LocScp, "ok", <<<<"p">>>>) : sv \in SourceVariants \cup {"ok"}}
    \cup {Manifest("ok", LocScp, ev, <<>>) : ev \in ExecVariants}

LookupInit ==
    /\ PipelineIdle /\ ParseIdle /\ BuilderIdle /\ AuditIdle
    /\ \E d \in LookupTrees, keys \in LookupPaths :
           lookup = [d0 |-> d, d |-> d, keys |-> keys, result |-> NoResult, pc |-> "call"]

LookupCall ==
    /\ lookup.pc = "call"
    /\ lookup' = [lookup EXCEPT !.result = GetNested(lookup.d, lookup.keys),
                                !.pc = "returned"]
    /\ UNCHANGED <<pipeline, parse, builder, reading, audit>>

LookupNext == LookupCall

LookupSpec == LookupInit /\ [][LookupNext]_vars

(***************************************************************************)
(* Text handling of DevContainerCheck (repro-check.py:152-157).  A text is *)
(* a sequence of one-character strings.  A parsed value is a record        *)
(* [t, s, m]: t is its type, s the characters of a string or number, m the *)
(* members of an object (in order of first appearance) or the elements of  *)
(* an array, each a pair [k, v].                                           *)
(***************************************************************************)
JVal(t, s, m) == [t |-> t, s |-> s, m |-> m]
JStr(s) == JVal("str", s, <<>>)
JNum(s) == JVal("num", s, <<>>)
JLit(name) == JVal(name, <<>>, <<>>)
JObj(m) == JVal("obj", <<>>, m)
JArr(m) == JVal("arr", <<>>, m)
None == JLit("null")
Pair(k, v) == [k |-> k, v |-> v]

\* json's whitespace, which is also what \s matches in the drawn texts.
Ws == {" ", "\t", "\n", "\r"}
Digits == {"0", "1", "2", "3", "4", "5", "6", "7", "8", "9"}
ControlChars == {"\t", "\n", "\r"}
Literals == {<<"t", "r", "u", "e">>, <<"f", "a", "l", "s", "e">>, <<"n", "u", "l", "l">>}
LiteralName(l) ==
    IF l[1] = "t" THEN "true" ELSE IF l[1] = "f" THEN "false" ELSE "null"
\* The character a backslash escape stands for (\b, \f and \u do not occur
\* in the texts drawn).
Escapes == {"\"", "\\", "/", "n", "t", "r"}
Unescape(c) ==
    IF c = "n" THEN "\n" ELSE IF c = "t" THEN "\t" ELSE IF c = "r" THEN "\r" ELSE c

ParseFail == [ok |-> FALSE, pos |-> 0, val |-> None]
ParseOk(pos, val) == [ok |-> TRUE, pos |-> pos, val |-> val]

RECURSIVE SkipWs(_, _)
SkipWs(s, i) ==
    IF i <= Len(s) /\ s[i] \in Ws THEN SkipWs(s, i + 1) ELSE i

\* dict assignment: a repeated key keeps its place and takes the new value.
Put(m, k, v) ==
    IF \E j \in 1..Len(m) : m[j].k = k
    THEN [j \in 1..Len(m) |-> IF m[j].k = k THEN Pair(k, v) ELSE m[j]]
    ELSE Append(m, Pair(k, v))

\* The string whose opening quote precedes position i.
RECURSIVE ParseString(_, _, _)
ParseString(s, i, acc) ==
    IF i > Len(s) THEN ParseFail
    ELSE IF s[i] = "\"" THEN ParseOk(i + 1, JStr(acc))
    ELSE IF s[i] = "\\"
    THEN IF i + 1 <= Len(s) /\ s[i + 1] \in Escapes
         THEN ParseString(s, i + 2, Append(acc, Unescape(s[i + 1])))
         ELSE ParseFail
    ELSE IF s[i] \in ControlChars THEN ParseFail
    ELSE ParseString(s, i + 1, Append(acc, s[i]))

RECURSIVE ParseDigits(_, _)
ParseDigits(s, i) ==
    IF i <= Len(s) /\ s[i] \in Digits THEN ParseDigits(s, i + 1) ELSE i

\* An integer without sign, fraction or exponent; a leading 0 ends it.
ParseNumber(s, i) ==
    LET j == IF s[i] = "0" THEN i + 1 ELSE ParseDigits(s, i)
    IN  ParseOk(j, JNum(SubSeq(s, i, j - 1)))

ParseLiteral(s, i) ==
    IF \E l \in Literals : i + Len(l) - 1 <= Len(s) /\ SubSeq(s, i, i + Len(l) - 1) = l
    THEN LET l == CHOOSE l \in Literals :
                      i + Len(l) - 1 <= Len(s) /\ SubSeq(s, i, i + Len(l) - 1) = l
         IN  ParseOk(i + Len(l), JLit(LiteralName(l)))
    ELSE ParseFail

RECURSIVE ParseValue(_, _)
RECURSIVE ParseMembers(_, _, _)
RECURSIVE ParseElements(_, _, _)

\* The members of an object from the key expected at position i.
ParseMembers(s, i, acc) ==
    IF i > Len(s) \/ s[i] # "\"" THEN ParseFail
    ELSE LET k == ParseString(s, i + 1, <<>>)
         IN  IF ~k.ok THEN ParseFail
             ELSE LET c == SkipWs(s, k.pos)
                  IN  IF c > Len(s) \/ s[c] # ":" THEN ParseFail
                      ELSE LET v == ParseValue(s, SkipWs(s, c + 1))
                           IN  IF ~v.ok THEN ParseFail
                               ELSE LET e == SkipWs(s, v.pos)
                                        m == Put(acc, k.val.s, v.val)
                                    IN  IF e > Len(s) THEN ParseFail
                                        ELSE IF s[e] = "}" THEN ParseOk(e + 1, JObj(m))
                                        ELSE IF s[e] = ","
                                        THEN ParseMembers(s, SkipWs(s, e + 1), m)
                                        ELSE ParseFail

\* The elements of an array from the value expected at position i.
ParseElements(s, i, acc) ==
    LET v == ParseValue(s, i)
    IN  IF ~v.ok THEN ParseFail
        ELSE LET e == SkipWs(s, v.pos)
                 m == Append(acc, Pair(<<>>, v.val))
             IN  IF e > Len(s) THEN ParseFail
                 ELSE IF s[e] = "]" THEN ParseOk(e + 1, JArr(m))
                 ELSE IF s[e] = "," THEN ParseElements(s, SkipWs(s, e + 1), m)
                 ELSE ParseFail

\* The value that starts at position i.
ParseValue(s, i) ==
    IF i > Len(s) THEN ParseFail
    ELSE IF s[i] = "\"" THEN ParseString(s, i + 1, <<>>)
    ELSE IF s[i] = "{"
    THEN LET j == SkipWs(s, i + 1)
         IN  IF j <= Len(s) /\ s[j] = "}" THEN ParseOk(j + 1, JObj(<<>>))
             ELSE ParseMembers(s, j, <<>>)
    ELSE IF s[i] = "["
    THEN LET j == SkipWs(s, i + 1)
         IN  IF j <= Len(s) /\ s[j] = "]" THEN ParseOk(j + 1, JArr(<<>>))
             ELSE ParseElements(s, j, <<>>)
    ELSE IF s[i] \in Digits THEN ParseNumber(s, i)
    ELSE ParseLiteral(s, i)

\* json.loads: one value, whitespace around it, nothing after it; a
\* result that is not ok stands for json.JSONDecodeError.
JsonLoads(s) ==
    LET r == ParseValue(s, SkipWs(s, 1))
    IN  IF r.ok /\ SkipWs(s, r.pos) > Len(s)
        THEN [ok |-> TRUE, val |-> r.val]
        ELSE [ok |-> FALSE, val |-> None]

\* The end of the line position i is on: the next newline or the end.
RECURSIVE LineEnd(_, _)
LineEnd(s, i) ==
    IF i > Len(s) \/ s[i] = "\n" THEN i ELSE LineEnd(s, i + 1)

\* re.sub(r'//.*?$', '', content, flags=re.MULTILINE) from position i:
\* every // is removed together with the rest of its line.
RECURSIVE StripComments(_, _)
StripComments(s, i) ==
    IF i > Len(s) THEN <<>>
    ELSE IF i < Len(s) /\ s[i] = "/" /\ s[i + 1] = "/"
    THEN StripComments(s, LineEnd(s, i))
    ELSE <<s[i]>> \o StripComments(s, i + 1)

\* ,(\s*[}\]]) matches at position i.
TrailingComma(s, i) ==
    /\ s[i] = ","
    /\ LET j == SkipWs(s, i + 1) IN j <= Len(s) /\ s[j] \in {"}", "]"}

\* re.sub(r',(\s*[}\]])', r'\1', content): each such comma is removed.
StripTrailingCommas(s) ==
    LET keep == {i \in 1..Len(s) : ~TrailingComma(s, i)}
        Nth(n) == CHOOSE i \in keep : Cardinality({j \in keep : j < i}) = n - 1
    IN  [n \in 1..Cardinality(keep) |-> s[Nth(n)]]

\* Lines 153-157: the relaxed-dialect parse.
RelaxedLoads(content) ==
    JsonLoads(StripTrailingCommas(StripComments(content, 1)))

(***************************************************************************)
(* The descriptor texts drawn: strictly well-formed texts, and what adding *)
(* // line comments and a trailing comma makes of them.                    *)
(***************************************************************************)
Quoted(s) == <<"\"">> \o s \o <<"\"">>
Member(k, v) == Quoted(k) \o <<":">> \o v
Object(members) == <<"{">> \o members \o <<"}">>
Comma == <<",">>

KeyName == <<"n", "a", "m", "e">>
KeyImage == <<"i", "m", "a", "g", "e">>
KeyBuild == <<"b", "u", "i", "l", "d">>
KeyDockerfile == <<"d", "o", "c", "k", "e", "r", "f", "i", "l", "e">>
KeyPostCreateCommand ==
    <<"p", "o", "s", "t", "C", "r", "e", "a", "t", "e", "C", "o", "m", "m", "a", "n", "d">>

ImageMember == Member(KeyImage, Quoted(<<"p">>))
PostCreateMember == Member(KeyPostCreateCommand, Quoted(<<"c">>))
BuildMember == Member(KeyBuild, Object(Member(KeyDockerfile, Quoted(<<"D">>))))

TextEmptyObject == Object(<<>>)
TextImage == Object(ImageMember)
TextImageAndCommand == Object(ImageMember \o Comma \o PostCreateMember)
TextBuild == Object(BuildMember)
TextBuildAndCommand == Object(BuildMember \o Comma \o PostCreateMember)
TextEmptyBuild == Object(Member(KeyBuild, Object(<<>>)))
TextEmptyImage == Object(Member(KeyImage, Quoted(<<>>)))
TextImageLines == <<"{", "\n", " ">> \o ImageMember \o <<"\n", "}">>
TextNullCommand ==
    Object(ImageMember \o Comma \o Member(KeyPostCreateCommand, <<"n", "u", "l", "l">>))
TextArray == <<"[", "]">>
TextNumbers == <<"[", "1", ",", "2", "0", "]">>
TextBuildString == Object(Member(KeyBuild, Quoted(<<"D">>)))
\* A string value that holds //, as a URL does.
TextSlashes ==
    Object(Member(KeyImage, Quoted(<<"h", ":", "/", "/", "p">>)) \o Comma \o PostCreateMember)
\* A string value that holds a comma before a closing bracket.
TextCommaInString ==
    Object(ImageMember \o Comma \o Member(KeyPostCreateCommand, Quoted(<<",", "]">>)))
TextMalformed == <<"{">>

StrictTexts ==
    {TextEmptyObject, TextImage, TextImageAndCommand, TextBuild, TextBuildAndCommand,
     TextEmptyBuild, TextEmptyImage, TextImageLines, TextNullCommand, TextArray,
     TextNumbers, TextBuildString, TextSlashes, TextCommaInString}

LineComment == <<"/", "/", " ", "c">>
WithLeadingComment(t) == LineComment \o <<"\n">> \o t
WithEndComment(t) == t \o <<" ">> \o LineComment
\* A comma before the closing brace or bracket of a container with members.
WithTrailingComma(t) ==
    IF Len(t) >= 3 /\ t[Len(t)] \in {"}", "]"} /\ t[Len(t) - 1] \notin ({"{", "["} \cup Ws)
    THEN SubSeq(t, 1, Len(t) - 1) \o Comma \o <<t[Len(t)]>>
    ELSE t
Relaxations == {"none", "leading", "end", "comma", "leading+comma", "end+comma"}
Relax(t, how) ==
    LET c == IF how \in {"comma", "leading+comma", "end+comma"} THEN WithTrailingComma(t) ELSE t
    IN  IF how \in {"leading", "leading+comma"} THEN WithLeadingComment(c)
        ELSE IF how \in {"end", "end+comma"} THEN WithEndComment(c)
        ELSE c

(***************************************************************************)
(* The relaxed-dialect parse on its own (repro-check.py:152-157): a        *)
(* strictly well-formed text is drawn, comments and a trailing comma are   *)
(* added to it, and the result is parsed once.                             *)
(***************************************************************************)
ParseInit ==
    /\ PipelineIdle /\ LookupIdle /\ BuilderIdle /\ AuditIdle
    /\ \E t \in StrictTexts, how \in Relaxations :
           parse = [original |-> t, text |-> Relax(t, how),
                    result |-> [ok |-> FALSE, val |-> None], pc |-> "parse"]

ParseRelaxed ==
    /\ parse.pc = "parse"
    /\ parse' = [parse EXCEPT !.result = RelaxedLoads(parse.text), !.pc = "done"]
    /\ UNCHANGED <<pipeline, lookup, builder, reading, audit>>

ParseNext == ParseRelaxed

ParseSpec == ParseInit /\ [][ParseNext]_vars

(***************************************************************************)
(* __configure_docker_container called twice (repro.py:152-187), each time *)
(* on a manifest of its own and an empty destination.                      *)
(***************************************************************************)
BuilderInit ==
    /\ PipelineIdle /\ LookupIdle /\ ParseIdle /\ AuditIdle
    /\ \E m1 \in Manifests, m2 \in Manifests :
           builder = [metadata |-> <<m1, m2>>, written |-> <<<<>>, <<>>>>,
                      raised |-> <<NoExc, NoExc>>, pc |-> <<"call", "call">>]

\* The i-th call: the Dockerfile text written, or the exception raised.
Configure(i) ==
    /\ builder.pc[i] = "call"
    /\ LET cmd == GetNested(builder.metadata[i], CmdPath)
       IN  builder' =
               [builder EXCEPT
                   !.written[i] = IF cmd.status = "ok" THEN DockerfileText(cmd.value) ELSE <<>>,
                   !.raised[i] = IF cmd.status = "ok" THEN NoExc
                                 ELSE IF ConfigureCatches(cmd.status)
                                 THEN SystemExit(ExitMissingExecutable)
                                 ELSE LookupErrorExc,
                   !.pc[i] = "returned"]
    /\ UNCHANGED <<pipeline, lookup, parse, reading, audit>>

BuilderNext == \E i \in 1..2 : Configure(i)

BuilderSpec == BuilderInit /\ [][BuilderNext]_vars

(***************************************************************************)
(* The audit (repro-check.py).  Result is an IntEnum whose members         *)
(* enum.auto() numbers from 1; a Python value that == compares by number   *)
(* is a record [cls, int].                                                 *)
(***************************************************************************)
SUCCESS == [cls |-> "Result", int |-> 1]
FAIL == [cls |-> "Result", int |-> 2]
Bool(b) == [cls |-> "bool", int |-> IF b THEN 1 ELSE 0]
PyEq(a, b) == a.int = b.int

\* A hint is a (title, description) pair, or None.
NO_HINT_NEEDED == <<>>
GIT_REPO_HINT == <<"Use Git", "Run git init from your code's directory ...">>
UNCHECKED_FILES_HINT == <<"Add or ignore all files", "Some of your files are not tracked ...">>
UNCOMMITTED_CHANGES_HINT == <<"Commit all changes", "Some of your files contain changes ...">>
UNPUSHED_CHANGES_HINT == <<"Push all your changes", "Some of the changes you committed ...">>
CONFIGURE_DEV_CONTAINER_HINT == <<"Configure and use a dev container", "For VSCode follow: ...">>
TodoHint == <<"TODO", "<TODO: hint>">>

\* A message the code builds, kept as one token.
Text(str) == JStr(<<str>>)
SubCheck(name, hint, value, result) ==
    [name |-> name, hint |-> hint, value |-> value, result |-> result]

OSError == [type |-> "OSError", code |-> 0, cmd |-> <<>>]
JSONDecodeError == [type |-> "JSONDecodeError", code |-> 0, cmd |-> <<>>]
AttributeError == [type |-> "AttributeError", code |-> 0, cmd |-> <<>>]

\* bool(value) of a bytes value: only the empty one is False.
BytesBool(value) == value # <<>>
\* `Result.SUCCESS if flag == 0 else Result.FAIL` for a bool: False == 0.
SuccessIfZero(flag) == IF ~flag THEN SUCCESS ELSE FAIL

\* Mutant: no `return` after the repository subcheck.
SkipsRest_Never(isrepo) == FALSE
\* Lines 97-98: `if not isrepo: return`.
SkipsRest(isrepo) == ~isrepo

\* GitCheck.subchecks (lines 79-122).  Root, branches and commit only fill
\* messages and are kept as fixed tokens.
GitSubchecks(r) ==
    LET isrepo == r.GIT_IS_REPO = <<"1">>
        unchecked_files == BytesBool(r.GIT_UNCHECKED_FILES)
        uncommitted_changes == BytesBool(r.GIT_UNCOMMITTED_CHANGES)
        unpushed_changes == BytesBool(r.GIT_UNPUSHED_CHANGES)
        repository ==
            SubCheck("Repository", GIT_REPO_HINT,
                     IF isrepo THEN Text("<root>") ELSE Text("Not a git repository"),
                     IF isrepo THEN SUCCESS ELSE FAIL)
    IN  IF SkipsRest(isrepo) THEN <<repository>>
        ELSE <<repository,
               SubCheck("Remote origin", TodoHint, JStr(r.GIT_REMOTE_ORIGIN),
                        IF r.GIT_REMOTE_ORIGIN # <<>> THEN SUCCESS ELSE FAIL),
               SubCheck("Branch", NO_HINT_NEEDED,
                        Text("<branch> (local) -> <upstream> (remote)"), SUCCESS),
               SubCheck("Commit", NO_HINT_NEEDED, Text("<commit>"), SUCCESS),
               SubCheck("Untracked files", UNCHECKED_FILES_HINT,
                        IF unchecked_files
                        THEN Text("Some files are not tracked by the repository nor ignored by the .gitignore")
                        ELSE Text("All files are tracked by the repository"),
                        SuccessIfZero(unchecked_files)),
               SubCheck("Uncommitted changes", UNCOMMITTED_CHANGES_HINT,
                        IF uncommitted_changes
                        THEN Text("Some changes to tracked files have not been committed")
                        ELSE Text("No uncommitted changes"),
                        SuccessIfZero(uncommitted_changes)),
               SubCheck("Unpushed changes", UNPUSHED_CHANGES_HINT,
                        IF unpushed_changes
                        THEN Text("Some commits have not been pushed to the remote.")
                        ELSE Text("Every commit that you have locally is also pushed"),
                        SuccessIfZero(unpushed_changes))>>

\* Python truth of a parsed value.
Truthy(v) ==
    CASE v.t = "str" -> v.s # <<>>
      [] v.t = "num" -> v.s # <<"0">>
      [] v.t = "true" -> TRUE
      [] v.t \in {"false", "null"} -> FALSE
      [] v.t \in {"obj", "arr"} -> v.m # <<>>
\* `v or d`.
OrElse(v, d) == IF Truthy(v) THEN v ELSE d
\* Only a dict has a get method.
HasGet(v) == v.t = "obj"
\* dict.get(key): the value stored under key, or None.
Get(config, key) ==
    LET hits == {j \in 1..Len(config.m) : config.m[j].k = key}
    IN  IF hits = {} THEN None ELSE config.m[CHOOSE j \in hits : TRUE].v

Yields(subchecks) == [subchecks |-> subchecks, raised |-> NoExc]
Raises(exc) == [subchecks |-> <<>>, raised |-> exc]

\* DevContainerCheck.subchecks (lines 137-174).  Nothing in it catches an
\* exception: open, json.loads and .get raise through list() in __call__.
DevContainerSubchecks(r) ==
    LET devconfigs == JsonLoads(r.DEVCONTAINER_CONF_PATHS).val
    IN  IF ~Truthy(devconfigs)
        THEN Yields(<<SubCheck("Find Dev Container Configuration",
                               CONFIGURE_DEV_CONTAINER_HINT, Text(""), FAIL)>>)
        ELSE IF ~r.readable THEN Raises(OSError)
        ELSE LET loaded == RelaxedLoads(r.content)
                 config == loaded.val
             IN  IF ~loaded.ok THEN Raises(JSONDecodeError)
                 ELSE IF ~HasGet(config) THEN Raises(AttributeError)
                 ELSE LET image == Get(config, KeyImage)
                          build == Get(config, KeyBuild)
                      IN  IF Truthy(build) /\ ~HasGet(build) THEN Raises(AttributeError)
                          ELSE LET build_dockerfile ==
                                       IF Truthy(build) THEN Get(build, KeyDockerfile) ELSE None
                                   base ==
                                       IF ~Truthy(image) /\ ~Truthy(build_dockerfile)
                                       THEN <<SubCheck("Base image or Dockerfile", TodoHint,
                                                       Text(""), FAIL)>>
                                       ELSE (IF Truthy(image)
                                             THEN <<SubCheck("Base image", NO_HINT_NEEDED,
                                                             image, SUCCESS)>>
                                             ELSE <<>>)
                                            \o (IF Truthy(build_dockerfile)
                                                THEN <<SubCheck("Dockerfile", NO_HINT_NEEDED,
                                                                build_dockerfile, SUCCESS)>>
                                                ELSE <<>>)
                                   post_create == Get(config, KeyPostCreateCommand)
                               IN  Yields(base \o
                                          <<SubCheck("Post-create command", NO_HINT_NEEDED,
                                                     OrElse(post_create, Text("<not set>")),
                                                     SUCCESS)>>)

\* The checks of main's loop (line 187), and their names.
Checks == <<"GitCheck", "DevContainerCheck">>
CheckName(check) ==
    IF check = "GitCheck" THEN "Git Repository" ELSE "Dev Container Configuration"
Subchecks(check, r) ==
    IF check = "GitCheck" THEN Yields(GitSubchecks(r)) ELSE DevContainerSubchecks(r)

\* Check.__call__ (line 53): all(...) gives a bool.
All(results) == Bool(\A j \in 1..Len(results) : PyEq(results[j].result, SUCCESS))

\* Lines 197-198: the hint of a subcheck is appended.
Actionable(subcheck) ==
    ~PyEq(subcheck.result, SUCCESS) /\ subcheck.hint # NO_HINT_NEEDED
Collected(subchecks) ==
    LET failed == SelectSeq(subchecks, Actionable)
    IN  [j \in 1..Len(failed) |-> failed[j].hint]

\* What the inspector and the file system can report.
Flags == {<<>>, <<"0">>, <<"1">>}
ConfPath == <<"d">>
NoConfPaths == <<"[", "]">>
OneConfPath == <<"[">> \o Quoted(ConfPath) \o <<"]">>
DescriptorTexts ==
    StrictTexts \cup {TextMalformed, Relax(TextImageAndCommand, "leading+comma")}
Descriptors ==
    {[paths |-> NoConfPaths, readable |-> FALSE, content |-> <<>>],
     [paths |-> OneConfPath, readable |-> FALSE, content |-> <<>>]}
    \cup {[paths |-> OneConfPath, readable |-> TRUE, content |-> c] : c \in DescriptorTexts}

AuditInit ==
    /\ PipelineIdle /\ LookupIdle /\ ParseIdle /\ BuilderIdle
    /\ \E isrepo \in {<<"0">>, <<"1">>}, origin \in {<<>>, <<"o">>},
          unchecked \in Flags, uncommitted \in Flags, unpushed \in Flags,
          d \in Descriptors :
           reading = [GIT_IS_REPO |-> isrepo, GIT_REMOTE_ORIGIN |-> origin,
                      GIT_UNCHECKED_FILES |-> unchecked,
                      GIT_UNCOMMITTED_CHANGES |-> uncommitted,
                      GIT_UNPUSHED_CHANGES |-> unpushed,
                      DEVCONTAINER_CONF_PATHS |-> d.paths,
                      readable |-> d.readable, content |-> d.content]
    /\ audit = [pc |-> "check", i |-> 1, checked |-> <<>>, hints |-> <<>>,
                report |-> [allgood |-> FALSE, count |-> -1, rows |-> <<>>],
                raised |-> NoExc, returned |-> -1, exit |-> -1]

\* One iteration of the loop of lines 187-198: check() is called once, and
\* its results are then printed and their hints collected.
AuditCheck ==
    /\ audit.pc = "check"
    /\ \E out \in {Subchecks(Checks[audit.i], reading)} :
       \E status \in {All(out.subchecks)} :
           audit' =
               IF out.raised # NoExc
               THEN [audit EXCEPT !.raised = out.raised, !.pc = "exit"]
               ELSE [audit EXCEPT
                        !.checked = Append(@, [name |-> CheckName(Checks[audit.i]),
                                               subchecks |-> out.subchecks,
                                               status |-> status,
                                               label |-> IF PyEq(status, SUCCESS)
                                                         THEN "PASS" ELSE "FAIL"]),
                        !.hints = @ \o Collected(out.subchecks),
                        !.i = @ + 1,
                        !.pc = IF audit.i = Len(Checks) THEN "report" ELSE "check"]
    /\ UNCHANGED <<pipeline, lookup, parse, builder, reading>>

\* Lines 199-235: the summary and main's return value.
AuditReport ==
    /\ audit.pc = "report"
    /\ audit' =
           IF audit.hints = <<>>
           THEN [audit EXCEPT !.report = [allgood |-> TRUE, count |-> -1, rows |-> <<>>],
                              !.returned = 0, !.pc = "exit"]
           ELSE [audit EXCEPT !.report = [allgood |-> FALSE, count |-> Len(audit.hints),
                                          rows |-> audit.hints],
                              !.returned = 1, !.pc = "exit"]
    /\ UNCHANGED <<pipeline, lookup, parse, builder, reading>>

\* Lines 238-239: exit(main()), or the interpreter ending on the exception.
AuditExit ==
    /\ audit.pc = "exit"
    /\ audit' = [audit EXCEPT !.exit = IF audit.raised # NoExc THEN UncaughtExitStatus
                                       ELSE audit.returned,
                              !.pc = "exited"]
    /\ UNCHANGED <<pipeline, lookup, parse, builder, reading>>

AuditNext == AuditCheck \/ AuditReport \/ AuditExit

AuditSpec == AuditInit /\ [][AuditNext]_vars

(***************************************************************************)
(* The properties checked.                                                 *)
(***************************************************************************)
Started(stage) == stage \in Range(stagesStarted)
Failed == raised # NotRaised
Terminal == pc \in {"unwind", "exit", "exited"}
Fetched(a) == a.cloned /\ a.checkedOut

\* The failure category of the run, from where and what was raised.
CategoryOf ==
    CASE raised = NotRaised -> "none"
      [] raised.exc.type = "CalledProcessError" -> "external_tool"
      [] raised.exc.type # "SystemExit" -> "unexpected"
      [] raised.stage = "load" -> "manifest_syntax"
      [] raised.stage = "fetch" /\ candidates = <<>> -> "missing_source_metadata"
      [] raised.stage = "fetch" -> "source_fetch_exhausted"
      [] OTHER -> "missing_executable"

\* C1: the stages start in the order load, fetch, build, execute, each at
\* most once; a stage is started only after the stage before it has produced
\* its result; and once a stage has failed the pipeline is terminal, the
\* failed stage being the last one that was ever started.
C1_StagesLinearFailFast ==
    /\ IsPrefix(stagesStarted, StageOrder)
    /\ Started("fetch") => input.wellformed /\ data = input.data
    /\ Started("build") => repo # <<>> /\ Fetched(attempts[Len(attempts)])
    /\ Started("execute") => dockerfile # <<>>
    /\ Failed => /\ Terminal
                 /\ stagesStarted # <<>>
                 /\ raised.stage = stagesStarted[Len(stagesStarted)]

C1_Witness ==
    /\ pc = "exited"
    /\ raised.stage = "build"
    /\ stagesStarted = <<"load", "fetch", "build">>

\* C2: when the process has ended, a working directory that was created has
\* been removed, whatever ended the run.
C2_TmpdirRemovedOnEveryExit ==
    pc = "exited" => tmpdir # "created" /\ dest = {}

C2_Witness ==
    /\ pc = "exited"
    /\ tmpdir = "removed"
    /\ raised.exc.type = "CalledProcessError"

\* C3: the exit status is 0 exactly on success, and a run that ends in one
\* of the five failure categories ends with a status that no other category
\* uses.
SysExitCategories == {"manifest_syntax", "missing_source_metadata",
                      "source_fetch_exhausted", "missing_executable"}
FailureCategories == SysExitCategories \cup {"external_tool"}
SysExitCode(c) ==
    CASE c = "manifest_syntax" -> ExitManifestSyntax
      [] c = "missing_source_metadata" -> ExitSourceMetadata
      [] c = "source_fetch_exhausted" -> ExitSourceUnavailable
      [] c = "missing_executable" -> ExitMissingExecutable

C3_DistinctExitCodes ==
    pc = "exited" =>
        /\ exitCode = 0 <=> CategoryOf = "none"
        /\ CategoryOf \in FailureCategories =>
               \A c \in SysExitCategories \ {CategoryOf} : exitCode # SysExitCode(c)

\* The locator the manifest records, when it records one as a string.
SourceValid ==
    /\ input.wellformed
    /\ GetNested(input.data, RepositoryPath).status = "ok"
    /\ GetNested(input.data, CommitPath).status = "ok"
    /\ GetNested(input.data, RepositoryPath).value[<<>>].kind = "str"
    /\ GetNested(input.data, CommitPath).value[<<>>].kind = "str"
Locator == GetNested(input.data, RepositoryPath).value[<<>>].val[1]

\* C4: the clone attempts follow the candidate list in order, the literal
\* locator first; a later candidate is attempted only after the attempt
\* before it failed in its clone or its checkout; and when the first
\* candidate's clone and checkout succeed, exactly one attempt is ever made.
C4_CandidatesTriedInOrder ==
    /\ Len(attempts) <= Len(candidates)
    /\ \A i \in 1..Len(attempts) :
           /\ attempts[i].url = candidates[i]
           /\ i > 1 => ~Fetched(attempts[i - 1])
    /\ attempts # <<>> => attempts[1].url = Locator
    /\ (attempts # <<>> /\ Fetched(attempts[1])) => Len(attempts) = 1

C4_Witness ==
    /\ Len(attempts) = 2
    /\ attempts[1].url = LocScp
    /\ attempts[2].url = LocHttps
    /\ ~attempts[1].cloned

\* C5: every clone attempt, also the one after an attempt whose clone
\* succeeded and whose checkout failed, starts from an empty destination.
C5_EveryCloneStartsEmpty ==
    \A i \in 1..Len(attempts) : attempts[i].destEmpty

\* C6: a run ends with the source-unavailable failure exactly when every
\* candidate failed; each candidate has then been attempted once, in order,
\* no repository handle was returned, and the exit status is 3.
SourceUnavailable == raised = Raise("fetch", SystemExit(ExitSourceUnavailable))

C6_ExhaustionTriesEveryCandidate ==
    /\ SourceUnavailable =>
           /\ Len(attempts) = Len(candidates)
           /\ \A i \in 1..Len(attempts) :
                  attempts[i].url = candidates[i] /\ ~Fetched(attempts[i])
           /\ repo = <<>>
           /\ ~Started("build")
           /\ pc = "exited" => exitCode = 3
    /\ (pc # "clone" /\ attempts # <<>> /\ \A i \in 1..Len(attempts) : ~Fetched(attempts[i]))
           => SourceUnavailable

C6_Witness ==
    /\ SourceUnavailable
    /\ pc = "exited"
    /\ Len(attempts) = 2

\* C7: when the recorded locator has the SCP-like form and is unreachable
\* while the derived HTTPS candidate is reachable and holds the commit, the
\* run eventually has fetched the source from the second candidate and has
\* started the Environment Builder.
C7_Scenario ==
    /\ SourceValid
    /\ ScpMatch(Locator).matched
    /\ remote[Locator] = "unreachable"
    /\ remote[HttpsPrefix \o ScpMatch(Locator).host \o <<"/">> \o ScpMatch(Locator).path] = "ok"

C7_FetchedFromSecond ==
    /\ Len(attempts) = 2
    /\ repo = HttpsPrefix \o ScpMatch(Locator).host \o <<"/">> \o ScpMatch(Locator).path
    /\ repo = attempts[2].url
    /\ Started("build")
    /\ CategoryOf \notin {"missing_source_metadata", "source_fetch_exhausted"}

C7_HttpsFallbackFetches == C7_Scenario ~> C7_FetchedFromSecond

C7_Witness ==
    /\ C7_Scenario
    /\ Locator = LocScp
    /\ C7_FetchedFromSecond
    /\ pc = "run_lookup"

\* C8: for a manifest with valid source metadata whose
\* implementation.executable.cmd cannot be looked up, no descriptor is ever
\* written and docker is never invoked, the Execution Runner is never
\* started, and the Environment Builder, once reached, fails with the
\* missing-executable failure, exit status 4.
ExecutableLacking ==
    /\ SourceValid
    /\ GetNested(input.data, CmdPath).status # "ok"

C8_MissingExecutableFailsInBuilder ==
    ExecutableLacking =>
        /\ dockerfile = <<>>
        /\ "Dockerfile" \notin dest
        /\ calls = <<>>
        /\ ~Started("execute")
        /\ Started("build") => raised = Raise("build", SystemExit(ExitMissingExecutable))
        /\ (pc = "exited" /\ Started("build")) => exitCode = 4

C8_Witness ==
    /\ ExecutableLacking
    /\ GetNested(input.data, CmdPath).status = "LookupError"
    /\ pc = "exited"
    /\ exitCode = 4

\* C9: the image build is invoked before the container run; a build that
\* returns a nonzero status is the last invocation made; and a nonzero
\* status of either step ends the run with a CalledProcessError that carries
\* the argument list of the step that failed, the two lists being different.
C9_BuildThenRun ==
    /\ IsPrefix(calls, <<BuildArgv, RunArgv>>)
    /\ BuildArgv # RunArgv
    /\ dockerBuildStatus = -1 <=> calls = <<>>
    /\ dockerRunStatus = -1 <=> Len(calls) < 2
    /\ dockerBuildStatus > 0 => Len(calls) = 1
    /\ dockerBuildStatus > 0 =>
           raised = Raise("execute", CalledProcessError(dockerBuildStatus, BuildArgv))
    /\ dockerRunStatus > 0 =>
           raised = Raise("execute", CalledProcessError(dockerRunStatus, RunArgv))
    /\ raised.exc.type = "CalledProcessError" =>
           /\ Terminal
           /\ raised.exc.cmd = calls[Len(calls)]
           /\ pc = "exited" => exitCode # 0

C9_Witness ==
    /\ pc = "exited"
    /\ Len(calls) = 2
    /\ raised.exc = CalledProcessError(125, RunArgv)

\* C10: once the Execution Runner is past its build step, the container run
\* has been issued with the automatic-removal flag, with the no-network flag
\* when network access is disabled and without it when it is enabled.
RunStepDone ==
    /\ Started("execute")
    /\ dockerBuildStatus = 0
    /\ pc \in {"leave", "unwind", "exit", "exited"}

StoredAt(d, p) ==
    [q \in {SubSeq(x, Len(p) + 1, Len(x)) : x \in {y \in DOMAIN d : IsPrefix(p, y)}}
        |-> d[p \o q]]
\* The first i keys lead through mappings to a stored value.
Reaches(d, keys, i) ==
    /\ \A j \in 0..i : SubSeq(keys, 1, j) \in DOMAIN d
    /\ \A j \in 0..(i - 1) : d[SubSeq(keys, 1, j)].kind = "map"

CmdJson(text) ==
    LET i == CHOOSE i \in 1..Len(text) : text[i] = "\n\nCMD "
    IN  SubSeq(text, i + 1, Len(text) - 1)
\* An argv as the parsed exec form holds it.
ExecForm(argv) == JArr([j \in 1..Len(argv) |-> Pair(<<>>, JStr(argv[j]))])

C18_RelaxedParseIsStrictParseOfOriginal ==
    parse.pc = "done" => parse.result = JsonLoads(parse.original)


\* The SCP-like form user@host:path, as git reads it: no slash and no colon
\* before the colon that ends the host; what precedes the "@" is the user
\* and what follows the colon is the path.
ScpParts(s) ==
    {p \in (1..Len(s)) \X (1..Len(s)) :
        /\ p[1] < p[2] - 1
        /\ s[p[1]] = "@" /\ s[p[2]] = ":"
        /\ \A k \in 1..(p[1] - 1) : s[k] \notin {"@", ":", "/"}
        /\ \A k \in (p[1] + 1)..(p[2] - 1) : s[k] \in HostChars}
IsScpLike(s) == ScpParts(s) # {}
HttpsOf(s) ==
    LET p == CHOOSE p \in ScpParts(s) : TRUE
    IN  HttpsPrefix \o SubSeq(s, p[1] + 1, p[2] - 1) \o <<"/">> \o SubSeq(s, p[2] + 1, Len(s))

\* C19: the candidate list built in __download_code starts with the
\* literal locator and has one or two elements; it has a second element
\* exactly when the locator has the SCP-like form user@host:path, and that
\* element is https://host/path.
C19_CandidateList ==
    candidates # <<>> =>
        /\ candidates[1] = Locator
        /\ Len(candidates) \in {1, 2}
        /\ Len(candidates) = 2 <=> IsScpLike(Locator)
        /\ Len(candidates) = 2 => candidates[2] = HttpsOf(Locator)


\* The outcomes of the subchecks in a list of results.
AllSucceed(subchecks) == \A k \in 1..Len(subchecks) : subchecks[k].result = SUCCESS

\* C12: what Check.__call__ returned for a Check is its subcheck results in
\* order, with an overall outcome equal to SUCCESS when every subcheck
\* outcome is SUCCESS and equal to FAIL otherwise.
C12_OverallOutcomeIsResult ==
    \A j \in 1..Len(audit.checked) :
        LET e == audit.checked[j]
        IN  /\ e.subchecks = Subchecks(Checks[j], reading).subchecks
            /\ PyEq(e.status, IF AllSucceed(e.subchecks) THEN SUCCESS ELSE FAIL)

\* Every subcheck the Checks yield on the reading, in order.
RECURSIVE SubchecksFrom(_)
SubchecksFrom(i) ==
    IF i > Len(Checks) THEN <<>>
    ELSE Subchecks(Checks[i], reading).subchecks \o SubchecksFrom(i + 1)
FailedWithHint(subcheck) == subcheck.result = FAIL /\ subcheck.hint # NO_HINT_NEEDED
HintsExpected ==
    LET failed == SelectSeq(SubchecksFrom(1), FailedWithHint)
    IN  [k \in 1..Len(failed) |-> failed[k].hint]

\* C13: once the audit has exited, the hints it collected are exactly the
\* hints of the subchecks of all Checks, in order, whose outcome is FAIL
\* and whose hint is present; its exit code is 0 iff that list is empty,
\* and otherwise it is 1 and the reported count is the length of the list.
C13_HintsAndExitCode ==
    audit.pc = "exited" =>
        /\ audit.hints = HintsExpected
        /\ audit.exit = 0 <=> audit.hints = <<>>
        /\ audit.hints # <<>> =>
               /\ audit.exit = 1
               /\ audit.report.count = Len(audit.hints)
               /\ audit.report.count >= 1

GitNames ==
    <<"Repository", "Remote origin", "Branch", "Commit", "Untracked files",
      "Uncommitted changes", "Unpushed changes">>
NamesOf(subchecks) == [k \in 1..Len(subchecks) |-> subchecks[k].name]
IsRepository == reading.GIT_IS_REPO = <<"1">>

\* C14: when the inspector reports no repository, GitCheck yields the
\* repository subcheck alone, with outcome FAIL and the hint to initialise
\* a repository; when it reports a repository, GitCheck yields the seven
\* subchecks repository, remote origin, branch, commit, untracked,
\* uncommitted, unpushed in that order.
C14_GitCheckOneOrSeven ==
    Len(audit.checked) >= 1 =>
        LET g == audit.checked[1].subchecks
        IN  IF ~IsRepository
            THEN /\ NamesOf(g) = <<"Repository">>
                 /\ g[1].result = FAIL
                 /\ g[1].hint = GIT_REPO_HINT
            ELSE NamesOf(g) = GitNames

C14_Witness ==
    /\ Len(audit.checked) >= 1
    /\ ~IsRepository
    /\ Len(audit.checked[1].subchecks) = 1
    /\ audit.hints # <<>>
    /\ audit.hints[1] = GIT_REPO_HINT

\* A reported count: zero items, or some.
ZeroCount(value) == value \in {<<>>, <<"0">>}
\* A value is set under a path of keys of a parsed descriptor.
RECURSIVE IsSet(_, _)
IsSet(v, path) ==
    IF path = <<>> THEN Truthy(v)
    ELSE /\ v.t = "obj"
         /\ \E k \in 1..Len(v.m) : v.m[k].k = Head(path) /\ IsSet(v.m[k].v, Tail(path))
Located == Truthy(JsonLoads(reading.DEVCONTAINER_CONF_PATHS).val)
\* Scenario D: a clean, fully pushed repository with a remote origin, and
\* a descriptor that declares an image and a post-create command.
ScenarioD ==
    /\ IsRepository
    /\ reading.GIT_REMOTE_ORIGIN # <<>>
    /\ ZeroCount(reading.GIT_UNCHECKED_FILES)
    /\ ZeroCount(reading.GIT_UNCOMMITTED_CHANGES)
    /\ ZeroCount(reading.GIT_UNPUSHED_CHANGES)
    /\ Located /\ reading.readable
    /\ JsonLoads(reading.content).ok
    /\ IsSet(JsonLoads(reading.content).val, <<KeyImage>>)
    /\ IsSet(JsonLoads(reading.content).val, <<KeyPostCreateCommand>>)
CountOf(name) ==
    IF name = "Untracked files" THEN reading.GIT_UNCHECKED_FILES
    ELSE IF name = "Uncommitted changes" THEN reading.GIT_UNCOMMITTED_CHANGES
    ELSE reading.GIT_UNPUSHED_CHANGES

\* C15: in Scenario D the audit collects no actionable item and exits
\* with code 0; and the untracked, uncommitted and unpushed subchecks are
\* FAIL only when the inspector reports that such items exist.
C15_CleanRepositoryPasses ==
    audit.pc = "exited" =>
        /\ ScenarioD => (audit.hints = <<>> /\ audit.exit = 0)
        /\ \A k \in 1..Len(audit.checked[1].subchecks) :
               LET sc == audit.checked[1].subchecks[k]
               IN  (sc.name \in {"Untracked files", "Uncommitted changes", "Unpushed changes"}
                      /\ sc.result = FAIL) => ~ZeroCount(CountOf(sc.name))

\* C16: the audit never raises: once it has exited, no exception went
\* through it, every Check returned its results, and the exit code is the
\* 0 or 1 that main returned.
C16_AuditNeverRaises ==
    audit.pc = "exited" =>
        /\ audit.raised = NoExc
        /\ Len(audit.checked) = Len(Checks)
        /\ audit.exit \in {0, 1}
        /\ audit.exit = audit.returned

\* C20: for a descriptor that was located, read and parsed,
\* DevContainerCheck yields a FAIL subcheck for the base image or
\* Dockerfile iff neither image nor build.dockerfile is set, and in
\* every case its last subcheck is the post-create one with outcome
\* SUCCESS, showing "<not set>" when no command is set.
C20_BaseImageThenPostCreate ==
    (audit.pc = "exited" /\ Located /\ reading.readable /\ RelaxedLoads(reading.content).ok) =>
        /\ Len(audit.checked) = Len(Checks)
        /\ LET d == audit.checked[2].subchecks
               config == RelaxedLoads(reading.content).val
           IN  /\ (\E k \in 1..Len(d) : d[k].name = "Base image or Dockerfile"
                                         /\ d[k].result = FAIL)
                    <=> (~IsSet(config, <<KeyImage>>)
                           /\ ~IsSet(config, <<KeyBuild, KeyDockerfile>>))
               /\ d[Len(d)].name = "Post-create command"
               /\ d[Len(d)].result = SUCCESS
               /\ ~IsSet(config, <<KeyPostCreateCommand>>) =>
                      d[Len(d)].value = Text("<not set>")

\* The manifest was loaded, and implementation.source.repository or
\* implementation.source.commit cannot be looked up in it.
SourceLookupFails ==
    /\ input.wellformed
    /\ \/ GetNested(input.data, RepositoryPath).status # "ok"
       \/ GetNested(input.data, CommitPath).status # "ok"
C21_NothingFetchedBuiltOrRun ==
    /\ candidates = <<>> /\ attempts = <<>> /\ repo = <<>>
    /\ dest = {} /\ dockerfile = <<>>
    /\ calls = <<>>
    /\ ~Started("build") /\ ~Started("execute")
    /\ Started("fetch") => raised = Raise("fetch", SystemExit(ExitSourceMetadata))
    /\ exitCode \in {-1, 2}
C21_ExitedWithSourceMetadata == pc = "exited" /\ exitCode = 2

\* C21: when implementation.source.repository or
\* implementation.source.commit cannot be looked up in the loaded manifest,
\* the run never attempts a clone, writes no descriptor and never invokes
\* docker build or docker run, and it ends with the missing-source-metadata
\* failure, exit status 2.
C21_MissingSourceMetadataExits2 ==
    /\ [](SourceLookupFails => C21_NothingFetchedBuiltOrRun)
    /\ SourceLookupFails ~> C21_ExitedWithSourceMetadata

C21_Witness ==
    /\ SourceLookupFails
    /\ GetNested(input.data, RepositoryPath).status = "ok"
    /\ GetNested(input.data, CommitPath).status = "KeyError"
    /\ C21_NothingFetchedBuiltOrRun
    /\ C21_ExitedWithSourceMetadata

====
